---- MODULE Spec2Model ----
(***************************************************************************)
(* State-machine model of the AI chat front end: the localStorage-backed  *)
(* mock auth layer (lib/auth.ts), the user store (store/userStore), the    *)
(* pages that call them (auth/login, auth/register, chat, home), the chat  *)
(* store (store/chatStore) with the mocked AI agent wrapper, and the chat  *)
(* input's upload handler and voice recorder hooks.                        *)
(*                                                                         *)
(* JavaScript runs one task at a time, so within a tab every event         *)
(* handler, timer continuation and render/effect pass is one atomic        *)
(* action.  Timers that share a delay fire in the order they were armed,   *)
(* so calls waiting on the same delay form a FIFO queue.  One tab is       *)
(* modelled, except for registerUser, which is also modelled as called     *)
(* from two tabs that share localStorage.                                  *)
(***************************************************************************)
EXTENDS Integers, Sequences, FiniteSets

\* ------------------------------------------------------------------ bounds

\* Auth calls (registerUser / loginUser) that may wait on their delay at once.
MaxPending == 2

\* ------------------------------------------------------------ input values

\* Form values that pass validateForm (validators.ts): the submit handlers
\* return before calling the auth layer on any other value.
Names == {"Ann"}
Emails == {"a@x.io", "b@x.io"}
Mobiles == {"0123456789"}
Passwords == {"secret1", "secret2"}

RegisterFormData == [name : Names, email : Emails, mobile : Mobiles, password : Passwords]
LoginFormData == [email : Emails, password : Passwords]

Routes == {"/", "/auth/login", "/auth/register", "/chat"}

\* ------------------------------------------------------------------- state

VARIABLES
    users,          \* localStorage['ai_chat_users']: sequence of user+password records
    currentUser,    \* localStorage['ai_chat_current_user']: a user, or NoUser when absent
    nextUserId,     \* source of generateUserId's fresh ids
    storeUser,      \* useUserStore.user (also what 'user-storage' persists)
    isInitialized,  \* useUserStore.isInitialized
    route,          \* the page the router shows
    screen,         \* what the mounted page last rendered
    dirty,          \* a render + effect pass of the mounted page is due
    isLoading,      \* the mounted auth form's isLoading state
    pendingAuth,    \* auth calls waiting on their 500 ms delay, oldest first
    lastResult,     \* the value the last settled auth call returned
    messages,       \* useChatStore.messages (also what 'chat-storage' persists)
    conversationId, \* useChatStore.conversationId, NoConversation for null
    isTyping,       \* useChatStore.isTyping
    inputText,      \* useChatStore.inputText
    pendingAttachments, \* useChatStore.pendingAttachments
    error,          \* useChatStore.error, NoError for null
    nextMsgId,      \* source of generateMessageId's fresh ids
    nextConvId,     \* source of generateConversationId's fresh ids
    nextAttId,      \* source of generateAttachmentId's fresh ids
    blobs,          \* object URLs that resolve in the chat page's document
    pendingSends,   \* sendMessage calls waiting on sendToAIAgent, oldest first
    isDragging,     \* useUploadHandler.isDragging
    uploadError,    \* useUploadHandler.uploadError, NoError for null
    dragCounter,    \* useUploadHandler.dragCounter
    renderedDragCounter, \* the dragCounter value the last render gave handleDragLeave
    forwarded,      \* the files the last drop / file selection passed to onFileSelect
    agentPayload,   \* the payload of the sendToAIAgent call under study
    agentResponse,  \* what that call resolved with, NoResponse while it runs
    webmSupported,  \* whether this browser's MediaRecorder accepts 'audio/webm'
    isRecording,    \* useVoiceRecorder.isRecording
    recordingDuration, \* useVoiceRecorder.recordingDuration
    recordingError, \* useVoiceRecorder.recordingError, NoError for null
    mediaRecorderRef, \* mediaRecorderRef.current: a recorder's index, NoRef for null
    chunksRef,      \* chunksRef.current
    timerRef,       \* timerRef.current: an interval's index, NoRef for null
    streamRef,      \* streamRef.current: a stream's index, NoRef for null
    pendingStarts,  \* startRecording calls waiting on getUserMedia
    streams,        \* every MediaStream granted so far: whether its tracks are live
    recorders,      \* every MediaRecorder built so far
    timers,         \* every interval armed so far: whether it still runs
    cancelled,      \* the recorders cancelRecording has been called on
    uploadedFrom,   \* the recorders whose stop handler produced an attachment
    resolved,       \* the recorder and blob of the last resolved stopRecording
    tabs,           \* per browser tab: its registerUser call, if one is running
    acked           \* ids of the users whose registration a tab reported successful

authVars == <<users, currentUser, nextUserId, storeUser, isInitialized, route,
              screen, dirty, isLoading, pendingAuth, lastResult>>

chatVars == <<messages, conversationId, isTyping, inputText, pendingAttachments,
              error, nextMsgId, nextConvId, nextAttId, blobs, pendingSends>>

uploadVars == <<isDragging, uploadError, dragCounter, renderedDragCounter, forwarded>>

agentVars == <<agentPayload, agentResponse>>

recVars == <<webmSupported, isRecording, recordingDuration, recordingError,
             mediaRecorderRef, chunksRef, timerRef, streamRef, pendingStarts,
             streams, recorders, timers, cancelled, uploadedFrom,
             resolved>>

\* The state of the chat input's hooks and of one agent call
tabVars == <<tabs, acked>>

inputVars == <<uploadVars, agentVars, recVars, tabVars>>

vars == <<authVars, chatVars, inputVars>>

\* null / absent user
NoUser == [id |-> 0, name |-> "", email |-> "", mobile |-> ""]

NoResult == [op |-> "none", success |-> FALSE, user |-> NoUser, error |-> ""]

ErrDuplicateEmail == "Email already registered"
ErrInvalidCredentials == "Invalid email or password"

\* ------------------------------------------------------------ lib/auth.ts

\* const { password: _, ...userWithoutPassword } = user
WithoutPassword(u) == [id |-> u.id, name |-> u.name, email |-> u.email, mobile |-> u.mobile]

\* users.some((u) => u.email === email)
EmailTaken(us, email) == \E i \in 1..Len(us) : us[i].email = email

\* Mutant of FindUser: the password is not compared
FindUserByEmail(us, email, password) ==
    LET hits == {i \in 1..Len(us) : us[i].email = email}
    IN  IF hits = {} THEN 0 ELSE CHOOSE i \in hits : \A j \in hits : i <= j

\* users.find((u) => u.email === email && u.password === password): index of the
\* first match, 0 when there is none
FindUser(us, email, password) ==
    LET hits == {i \in 1..Len(us) : us[i].email = email /\ us[i].password = password}
    IN  IF hits = {} THEN 0 ELSE CHOOSE i \in hits : \A j \in hits : i <= j

\* Mutant of RegisterUsers: the duplicate-email check is missing
RegisterUsersNoCheck(us, id, data) ==
    Append(us, [id |-> id, name |-> data.name, email |-> data.email,
                mobile |-> data.mobile, password |-> data.password])

\* Mutant of RegisterUsers: the new record goes to the front (unshift for push)
RegisterUsersPrepend(us, id, data) ==
    IF EmailTaken(us, data.email)
    THEN us
    ELSE <<[id |-> id, name |-> data.name, email |-> data.email,
            mobile |-> data.mobile, password |-> data.password]>> \o us

\* Mutant of RegisterUsers: the collection is saved with the new record alone
RegisterUsersReplace(us, id, data) ==
    IF EmailTaken(us, data.email)
    THEN us
    ELSE <<[id |-> id, name |-> data.name, email |-> data.email,
            mobile |-> data.mobile, password |-> data.password]>>

\* registerUser after its delay: the users collection it leaves
\* (createdAt, a timestamp that no code reads, is left out of the record)
RegisterUsers(us, id, data) ==
    IF EmailTaken(us, data.email)
    THEN us
    ELSE Append(us, [id |-> id, name |-> data.name, email |-> data.email,
                     mobile |-> data.mobile, password |-> data.password])

\* registerUser after its delay: the value it returns
RegisterResult(us, id, data) ==
    IF EmailTaken(us, data.email)
    THEN [op |-> "register", success |-> FALSE, user |-> NoUser, error |-> ErrDuplicateEmail]
    ELSE [op |-> "register", success |-> TRUE,
          user |-> [id |-> id, name |-> data.name, email |-> data.email, mobile |-> data.mobile],
          error |-> ""]

\* loginUser after its delay: the value it returns
LoginResult(us, data) ==
    LET i == FindUser(us, data.email, data.password)
    IN  IF i = 0
        THEN [op |-> "login", success |-> FALSE, user |-> NoUser, error |-> ErrInvalidCredentials]
        ELSE [op |-> "login", success |-> TRUE, user |-> WithoutPassword(us[i]), error |-> ""]

\* Mutant of LoginSession: an existing session record is not overwritten
LoginSessionKeep(us, cur, data) ==
    LET i == FindUser(us, data.email, data.password)
    IN  IF i = 0 \/ cur # NoUser THEN cur ELSE WithoutPassword(us[i])

\* loginUser after its delay: the current-session record it leaves
LoginSession(us, cur, data) ==
    LET i == FindUser(us, data.email, data.password)
    IN  IF i = 0 THEN cur ELSE WithoutPassword(us[i])

\* getCurrentUser()
GetCurrentUser == currentUser

\* isLoggedIn()
IsLoggedIn == GetCurrentUser # NoUser

\* Mutant of LogoutSession: the session record is left in place
LogoutSessionKeep(cur) == cur

\* logoutUser(): localStorage.removeItem(CURRENT_USER_KEY)
LogoutSession(cur) == NoUser

\* ------------------------------------------------------- store/userStore

\* useUserStore.initialize: set({ user: getCurrentUser(), isInitialized: true })
InitializeUser == GetCurrentUser

\* useUserStore.logout: the store's user after set({ user: null })
LogoutStoreUser(u) == NoUser

\* ------------------------------------------------------------------ pages

\* What the page at route r renders from the store values (u, init)
PageRender(r, u, init) ==
    CASE r = "/chat" -> IF ~init \/ u = NoUser THEN "loader" ELSE "chat"
      [] r = "/auth/login" -> "login"
      [] r = "/auth/register" -> "register"
      [] OTHER -> "loader"

\* Mutant of RedirectEffect: the chat page has no redirect
RedirectEffectNoChat(r, u, init) ==
    CASE r = "/chat" -> r
      [] r \in {"/auth/login", "/auth/register"} -> IF init /\ u # NoUser THEN "/chat" ELSE r
      [] OTHER -> IF init THEN (IF u # NoUser THEN "/chat" ELSE "/auth/login") ELSE r

\* The route the page's redirect effect leaves, from the values it rendered with
RedirectEffect(r, u, init) ==
    CASE r = "/chat" -> IF init /\ u = NoUser THEN "/auth/login" ELSE r
      [] r \in {"/auth/login", "/auth/register"} -> IF init /\ u # NoUser THEN "/chat" ELSE r
      [] OTHER -> IF init THEN (IF u # NoUser THEN "/chat" ELSE "/auth/login") ELSE r

\* Pending calls whose form has been unmounted no longer reach its isLoading
Unmounted(q) == [i \in 1..Len(q) |-> [q[i] EXCEPT !.mounted = FALSE]]

\* One render of the mounted page followed by its effects: the initialize effect
\* and the redirect effect both read the values of this render.
Render ==
    /\ dirty
    /\ screen' = PageRender(route, storeUser, isInitialized)
    /\ storeUser' = IF isInitialized THEN storeUser ELSE InitializeUser
    /\ isInitialized' = TRUE
    /\ route' = RedirectEffect(route, storeUser, isInitialized)
    /\ dirty' = (~isInitialized \/ route' # route)
    /\ isLoading' = IF route' # route THEN FALSE ELSE isLoading
    /\ pendingAuth' = IF route' # route THEN Unmounted(pendingAuth) ELSE pendingAuth
    /\ UNCHANGED <<users, currentUser, nextUserId, lastResult>>
    /\ UNCHANGED <<chatVars, inputVars>>

\* RegisterPage.handleSubmit up to its await
RegisterSubmit(data) ==
    /\ ~dirty /\ screen = "register" /\ ~isLoading
    /\ Len(pendingAuth) < MaxPending
    /\ isLoading' = TRUE
    /\ pendingAuth' = Append(pendingAuth, [op |-> "register", data |-> data, mounted |-> TRUE])
    /\ UNCHANGED <<users, currentUser, nextUserId, storeUser, isInitialized, route,
                   screen, dirty, lastResult>>
    /\ UNCHANGED <<chatVars, inputVars>>

\* LoginPage.handleSubmit up to its await
LoginSubmit(data) ==
    /\ ~dirty /\ screen = "login" /\ ~isLoading
    /\ Len(pendingAuth) < MaxPending
    /\ isLoading' = TRUE
    /\ pendingAuth' = Append(pendingAuth, [op |-> "login", data |-> data, mounted |-> TRUE])
    /\ UNCHANGED <<users, currentUser, nextUserId, storeUser, isInitialized, route,
                   screen, dirty, lastResult>>
    /\ UNCHANGED <<chatVars, inputVars>>

\* What a handleSubmit does with the result it awaited: setUser + router.push
\* on success, the error banner otherwise; finally setIsLoading(false).
SubmitContinuation(call, result) ==
    /\ storeUser' = IF result.success THEN result.user ELSE storeUser
    /\ route' = IF result.success THEN "/chat" ELSE route
    /\ dirty' = (dirty \/ result.success \/ call.mounted)
    /\ isLoading' = IF call.mounted \/ route' # route THEN FALSE ELSE isLoading
    /\ pendingAuth' = IF route' # route THEN Unmounted(Tail(pendingAuth)) ELSE Tail(pendingAuth)

\* The 500 ms timer of the oldest registerUser call fires: the rest of
\* registerUser, then the rest of RegisterPage.handleSubmit.
RegisterResponse ==
    /\ pendingAuth # <<>>
    /\ Head(pendingAuth).op = "register"
    /\ LET call == Head(pendingAuth)
           result == RegisterResult(users, nextUserId, call.data)
       IN  /\ users' = RegisterUsers(users, nextUserId, call.data)
           /\ nextUserId' = IF result.success THEN nextUserId + 1 ELSE nextUserId
           /\ lastResult' = result
           /\ SubmitContinuation(call, result)
    /\ UNCHANGED <<currentUser, isInitialized, screen>>
    /\ UNCHANGED <<chatVars, inputVars>>

\* The 500 ms timer of the oldest loginUser call fires: the rest of loginUser,
\* then the rest of LoginPage.handleSubmit.
LoginResponse ==
    /\ pendingAuth # <<>>
    /\ Head(pendingAuth).op = "login"
    /\ LET call == Head(pendingAuth)
           result == LoginResult(users, call.data)
       IN  /\ currentUser' = LoginSession(users, currentUser, call.data)
           /\ lastResult' = result
           /\ SubmitContinuation(call, result)
    /\ UNCHANGED <<users, nextUserId, isInitialized, screen>>
    /\ UNCHANGED <<chatVars, inputVars>>

\* ChatPage.handleLogout: useUserStore.logout() then router.push('/auth/login')
Logout ==
    /\ ~dirty /\ screen = "chat"
    /\ currentUser' = LogoutSession(currentUser)
    /\ storeUser' = LogoutStoreUser(storeUser)
    /\ route' = "/auth/login"
    /\ dirty' = TRUE
    /\ isLoading' = FALSE
    /\ pendingAuth' = Unmounted(pendingAuth)
    /\ UNCHANGED <<users, nextUserId, isInitialized, screen, lastResult>>
    /\ UNCHANGED <<chatVars, inputVars>>

\* The <Link> between the login and the register form
Navigate ==
    /\ ~dirty /\ screen \in {"login", "register"}
    /\ route' = IF screen = "login" THEN "/auth/register" ELSE "/auth/login"
    /\ dirty' = TRUE
    /\ isLoading' = FALSE
    /\ pendingAuth' = Unmounted(pendingAuth)
    /\ UNCHANGED <<users, currentUser, nextUserId, storeUser, isInitialized, screen, lastResult>>
    /\ UNCHANGED <<chatVars, inputVars>>

\* The tab loads a page anew: timers die, the stores are created again, the
\* persist middleware rehydrates user from 'user-storage', localStorage stays.
Reload(r) ==
    /\ route' = r
    /\ screen' = "none"
    /\ dirty' = TRUE
    /\ isInitialized' = FALSE
    /\ isLoading' = FALSE
    /\ pendingAuth' = <<>>
    /\ lastResult' = NoResult
    /\ UNCHANGED <<users, currentUser, nextUserId, storeUser>>
    /\ UNCHANGED <<chatVars, inputVars>>

\* ------------------------------------------------------- store/chatStore

\* Message ids the model may hand out (two per completed sendMessage).
MaxMsgIds == 4

\* Conversation ids the model may hand out.
MaxConvIds == 2

\* Attachments the model may create.
MaxUploads == 1

NoConversation == 0
NoError == ""

ErrSendFailed == "Failed to send message. Please try again."
ErrAgentFailed == "Failed to get response from AI agent. Please try again."

\* Texts the textarea may hold; the first two are blank under trim()
InputTexts == {"", " ", "hi"}

\* !content.trim()
IsBlank(t) == t \in {"", " "}

\* The texts of the empty state's suggestion buttons
Suggestions == {"Hello! What can you help me with?", "Help me write some code",
                "Explain something to me"}

\* Files the upload paths hand to handleFileUpload
Files == {[name |-> "photo.png", type |-> "image/png", size |-> 1],
          [name |-> "notes.pdf", type |-> "application/pdf", size |-> 2]}

\* How a sendToAIAgent call can end: it resolves with a reply, it resolves with
\* the error reply of its own catch block, or it rejects.  The mocked body only
\* ever takes the first; the other two are the paths written for the real call.
Outcomes == {"ok", "agentError", "throw"}

\* The string getRandomResponse picks from the pool of the message's category
MockReply == "mock reply"

\* sendToAIAgent: the response it resolves with
SendToAIAgent(payload, outcome) ==
    IF outcome = "ok"
    THEN [type |-> "text", content |-> MockReply, error |-> NoError]
    ELSE [type |-> "text", content |-> "", error |-> ErrAgentFailed]

\* Every other chat action marks the waiting sends as no longer running alone
Interleaved(q) == [i \in 1..Len(q) |-> [q[i] EXCEPT !.alone = FALSE]]

\* Conversation ids the waiting sends will still draw
ConvReserve == Cardinality({i \in 1..Len(pendingSends) :
                              pendingSends[i].conversationId = NoConversation})

\* sendMessage's first set(): the message list with the user message
SentMessages(msgs, userMessage) == Append(msgs, userMessage)

\* Mutant of SentTyping: the first set() leaves the flag off
SentTypingOff == FALSE

\* sendMessage's first set(): the typing flag
SentTyping == TRUE

\* Mutant of ResponseMessages: the reply takes the place of the last message
ResponseMessagesReplace(msgs, aiMessage, outcome) ==
    IF outcome = "throw" \/ msgs = <<>> THEN msgs
    ELSE Append(SubSeq(msgs, 1, Len(msgs) - 1), aiMessage)

\* sendMessage after the await: the message list it leaves
ResponseMessages(msgs, aiMessage, outcome) ==
    IF outcome = "throw" THEN msgs ELSE Append(msgs, aiMessage)

\* Mutant of ResponseTyping: the catch block does not clear the flag
ResponseTypingStuck(outcome) == outcome = "throw"

\* sendMessage after the await: the typing flag it leaves
ResponseTyping(outcome) == FALSE

\* Mutant of ResponseError: the catch block leaves the error as it was
ResponseErrorSilent(err, response, outcome) ==
    IF outcome # "throw" /\ response.error # NoError THEN response.error ELSE err

\* sendMessage after the await: the error it leaves
ResponseError(err, response, outcome) ==
    IF outcome = "throw" THEN ErrSendFailed
    ELSE IF response.error # NoError THEN response.error ELSE err

\* sendMessage after the await: conversationId || generateConversationId(),
\* with the conversationId read when sendMessage was called
ResponseConversation(captured, fresh) ==
    IF captured # NoConversation THEN captured ELSE fresh

\* useChatStore.sendMessage up to its await
\* (a message's timestamp, which no code reads, is left out of the record)
SendMessage(content, attachments) ==
    /\ (nextMsgId - 1) + Len(pendingSends) + 2 <= MaxMsgIds
    /\ conversationId = NoConversation => (nextConvId - 1) + ConvReserve + 1 <= MaxConvIds
    /\ LET userMessage == [id |-> nextMsgId, role |-> "user", content |-> content,
                           contentType |-> "text", attachments |-> attachments]
       IN  /\ messages' = SentMessages(messages, userMessage)
           /\ pendingSends' = Append(Interleaved(pendingSends),
                  [content |-> content, attachments |-> attachments,
                   conversationId |-> conversationId, userMsgId |-> nextMsgId,
                   alone |-> pendingSends = <<>>])
    /\ inputText' = ""
    /\ pendingAttachments' = <<>>
    /\ isTyping' = SentTyping
    /\ error' = NoError
    /\ nextMsgId' = nextMsgId + 1
    /\ UNCHANGED <<conversationId, nextConvId, nextAttId, blobs>>

\* useChat.sendMessage: the store's sendMessage with the pending attachments
UseChatSend(content) ==
    /\ ~(IsBlank(content) /\ pendingAttachments = <<>>)
    /\ SendMessage(content, pendingAttachments)

\* ChatWindow.handleSend, from the send button or Enter (both off while typing)
HandleSend ==
    /\ ~isTyping
    /\ UseChatSend(inputText)
    /\ UNCHANGED <<authVars, inputVars>>

\* A suggestion button of the empty state
Suggestion(text) ==
    /\ messages = <<>>
    /\ UseChatSend(text)
    /\ UNCHANGED <<authVars, inputVars>>

\* The oldest sendToAIAgent call settles: the rest of sendMessage
SendResponse(outcome) ==
    /\ pendingSends # <<>>
    /\ LET call == Head(pendingSends)
           response == SendToAIAgent(call, outcome)
           aiMessage == [id |-> nextMsgId, role |-> "assistant", content |-> response.content,
                         contentType |-> response.type, attachments |-> <<>>]
           fresh == outcome # "throw" /\ call.conversationId = NoConversation
       IN  /\ messages' = ResponseMessages(messages, aiMessage, outcome)
           /\ isTyping' = ResponseTyping(outcome)
           /\ conversationId' = IF outcome = "throw" THEN conversationId
                                ELSE ResponseConversation(call.conversationId, nextConvId)
           /\ error' = ResponseError(error, response, outcome)
           /\ nextMsgId' = IF outcome = "throw" THEN nextMsgId ELSE nextMsgId + 1
           /\ nextConvId' = IF fresh THEN nextConvId + 1 ELSE nextConvId
    /\ pendingSends' = Interleaved(Tail(pendingSends))
    /\ UNCHANGED <<inputText, pendingAttachments, nextAttId, blobs>>
    /\ UNCHANGED <<authVars, inputVars>>

\* useChatStore.setInputText, from the textarea (off while typing)
SetInputText(text) ==
    /\ ~isTyping
    /\ inputText' = text
    /\ pendingSends' = Interleaved(pendingSends)
    /\ UNCHANGED <<messages, conversationId, isTyping, pendingAttachments, error,
                   nextMsgId, nextConvId, nextAttId, blobs>>
    /\ UNCHANGED <<authVars, inputVars>>

\* useChatStore.handleFileUpload: uploadFile, then addAttachment
\* uploadFile returns URL.createObjectURL(file): a URL no earlier call
\* returned, which resolves as long as the document that created it exists
UploadFile(fresh) == fresh

StoreFileUpload(file) ==
    /\ pendingAttachments' = Append(pendingAttachments,
           [id |-> nextAttId, name |-> file.name, type |-> file.type, size |-> file.size,
            url |-> UploadFile(nextAttId)])
    /\ blobs' = blobs \cup {UploadFile(nextAttId)}
    /\ nextAttId' = nextAttId + 1
    /\ pendingSends' = Interleaved(pendingSends)
    /\ UNCHANGED <<messages, conversationId, isTyping, inputText, error, nextMsgId, nextConvId>>

\* handleFileUpload called with a file an input path hands over
HandleFileUpload(file) ==
    /\ nextAttId <= MaxUploads
    /\ StoreFileUpload(file)
    /\ UNCHANGED <<authVars, inputVars>>

\* pendingAttachments.filter((a) => a.id !== id)
WithoutAttachment(atts, id) == SelectSeq(atts, LAMBDA a : a.id # id)

\* useChatStore.removeAttachment, from a file preview
RemoveAttachment(id) ==
    /\ \E i \in 1..Len(pendingAttachments) : pendingAttachments[i].id = id
    /\ pendingAttachments' = WithoutAttachment(pendingAttachments, id)
    /\ pendingSends' = Interleaved(pendingSends)
    /\ UNCHANGED <<messages, conversationId, isTyping, inputText, error,
                   nextMsgId, nextConvId, nextAttId, blobs>>
    /\ UNCHANGED <<authVars, inputVars>>

\* useChatStore.clearMessages
ClearMessages ==
    /\ messages' = <<>>
    /\ conversationId' = NoConversation
    /\ pendingSends' = Interleaved(pendingSends)
    /\ UNCHANGED <<isTyping, inputText, pendingAttachments, error,
                   nextMsgId, nextConvId, nextAttId, blobs>>
    /\ UNCHANGED <<authVars, inputVars>>

\* Mutant of NewConversation: the pending attachments and the error are kept
NewConversationKeeps ==
    /\ (nextConvId - 1) + ConvReserve + 1 <= MaxConvIds
    /\ messages' = <<>>
    /\ conversationId' = nextConvId
    /\ nextConvId' = nextConvId + 1
    /\ inputText' = ""
    /\ pendingSends' = Interleaved(pendingSends)
    /\ UNCHANGED <<isTyping, nextMsgId, nextAttId, blobs, pendingAttachments, error>>
    /\ UNCHANGED <<authVars, inputVars>>

\* useChatStore.newConversation
NewConversation ==
    /\ (nextConvId - 1) + ConvReserve + 1 <= MaxConvIds
    /\ messages' = <<>>
    /\ conversationId' = nextConvId
    /\ nextConvId' = nextConvId + 1
    /\ inputText' = ""
    /\ pendingAttachments' = <<>>
    /\ error' = NoError
    /\ pendingSends' = Interleaved(pendingSends)
    /\ UNCHANGED <<isTyping, nextMsgId, nextAttId, blobs>>
    /\ UNCHANGED <<authVars, inputVars>>

\* useChat.clearError: setError(null), from the toast's button or its 5 s timer
ClearError ==
    /\ error # NoError
    /\ error' = NoError
    /\ pendingSends' = Interleaved(pendingSends)
    /\ UNCHANGED <<messages, conversationId, isTyping, inputText, pendingAttachments,
                   nextMsgId, nextConvId, nextAttId, blobs>>
    /\ UNCHANGED <<authVars, inputVars>>

\* The tab loads the chat page anew: the waiting sends die with their timers and
\* the persist middleware rehydrates messages and conversationId.
ChatReload ==
    /\ blobs' = {}
    /\ isTyping' = FALSE
    /\ inputText' = ""
    /\ pendingAttachments' = <<>>
    /\ error' = NoError
    /\ pendingSends' = <<>>
    /\ UNCHANGED <<messages, conversationId, nextMsgId, nextConvId, nextAttId>>
    /\ UNCHANGED <<authVars, inputVars>>

\* ------------------------------------------------------ lib/validators.ts

MAX_FILE_SIZE == 10485760

AllowedImages == {"image/jpeg", "image/png", "image/gif", "image/webp"}
AllowedDocuments == {"application/pdf", "text/plain", "application/msword"}
AllowedAudio == {"audio/mp3", "audio/wav", "audio/webm", "audio/ogg"}

ErrFileType == "File type not supported"
ErrFileSize == "File size exceeds 10MB limit"

\* Mutant of ValidateFile: the type is not looked at
ValidateFileSizeOnly(file) ==
    IF file.size > MAX_FILE_SIZE
    THEN [valid |-> FALSE, error |-> ErrFileSize]
    ELSE [valid |-> TRUE, error |-> NoError]

\* Mutant of ValidateFile: the size is not looked at
ValidateFileTypeOnly(file) ==
    IF file.type \notin AllowedImages \cup AllowedDocuments \cup AllowedAudio
    THEN [valid |-> FALSE, error |-> ErrFileType]
    ELSE [valid |-> TRUE, error |-> NoError]

\* validateFile: the type is tested first, the size second
ValidateFile(file) ==
    IF file.type \notin AllowedImages \cup AllowedDocuments \cup AllowedAudio
    THEN [valid |-> FALSE, error |-> ErrFileType]
    ELSE IF file.size > MAX_FILE_SIZE
         THEN [valid |-> FALSE, error |-> ErrFileSize]
         ELSE [valid |-> TRUE, error |-> NoError]

\* ------------------------------------------------- hooks/useUploadHandler

\* Nesting depth of drag-enter events the model follows
MaxDragDepth == 2

\* Files one drop or one file selection may carry
MaxFiles == 2

\* Files a user may drop or pick: an image, a document and an archive, each
\* exactly at the size limit and one byte above it
UserFileTypes == {"image/png", "application/pdf", "application/zip"}
UserFileSizes == {MAX_FILE_SIZE, MAX_FILE_SIZE + 1}
UserFileName(type) ==
    CASE type = "image/png" -> "photo.png"
      [] type = "application/pdf" -> "notes.pdf"
      [] OTHER -> "bundle.zip"
UserFiles == {[name |-> UserFileName(t), type |-> t, size |-> z] :
              t \in UserFileTypes, z \in UserFileSizes}

\* What may follow the first file of a list; the code never reads these
OtherFiles == {[name |-> "photo.png", type |-> "image/png", size |-> MAX_FILE_SIZE],
               [name |-> "bundle.zip", type |-> "application/zip", size |-> MAX_FILE_SIZE + 1]}

\* e.dataTransfer.files / e.target.files: no file, or any first file followed
\* by other files
FileLists ==
    {<<>>} \cup {<<f>> \o rest : f \in UserFiles,
                 rest \in UNION {[1..n -> OtherFiles] : n \in 0..(MaxFiles - 1)}}

UploadInit ==
    /\ isDragging = FALSE
    /\ uploadError = NoError
    /\ dragCounter = 0
    /\ renderedDragCounter = 0
    /\ forwarded = <<>>

\* handleDragEnter; hasItems is whether e.dataTransfer.items is non-empty
HandleDragEnter(hasItems) ==
    /\ dragCounter < MaxDragDepth
    /\ dragCounter' = dragCounter + 1
    /\ isDragging' = IF hasItems THEN TRUE ELSE isDragging
    /\ UNCHANGED <<uploadError, renderedDragCounter, forwarded>>
    /\ UNCHANGED <<authVars, tabVars, chatVars, agentVars, recVars>>

\* handleDragLeave: the state updater decrements the counter, the test reads
\* the counter value the handler closed over at the last render
HandleDragLeave ==
    /\ dragCounter > 0
    /\ dragCounter' = dragCounter - 1
    /\ isDragging' = IF renderedDragCounter - 1 = 0 THEN FALSE ELSE isDragging
    /\ UNCHANGED <<uploadError, renderedDragCounter, forwarded>>
    /\ UNCHANGED <<authVars, tabVars, chatVars, agentVars, recVars>>

\* A render of ChatInput: useCallback rebuilds handleDragLeave over the current
\* counter.  Drag-enter and drag-leave updates are not flushed synchronously,
\* so events may be handled before this step.
UploadRender ==
    /\ renderedDragCounter # dragCounter
    /\ renderedDragCounter' = dragCounter
    /\ UNCHANGED <<isDragging, uploadError, dragCounter, forwarded>>
    /\ UNCHANGED <<authVars, tabVars, chatVars, agentVars, recVars>>

\* Mutant of ValidateAndForward: the last file of the list is taken
ValidateAndForwardLast(files) ==
    IF Len(files) > 0
    THEN LET file == files[Len(files)]
             validation == ValidateFile(file)
         IN  IF validation.valid
             THEN /\ nextAttId <= MaxUploads
                  /\ uploadError' = NoError
                  /\ forwarded' = <<file>>
                  /\ StoreFileUpload(file)
             ELSE /\ uploadError' = validation.error
                  /\ forwarded' = <<>>
                  /\ UNCHANGED chatVars
    ELSE /\ forwarded' = <<>>
         /\ UNCHANGED <<uploadError, chatVars>>

\* The part handleDrop and handleFileSelect share: validate files[0], then
\* either call onFileSelect (ChatInput passes the store's handleFileUpload)
\* or set the error
ValidateAndForward(files) ==
    IF Len(files) > 0
    THEN LET file == files[1]
             validation == ValidateFile(file)
         IN  IF validation.valid
             THEN /\ nextAttId <= MaxUploads
                  /\ uploadError' = NoError
                  /\ forwarded' = <<file>>
                  /\ StoreFileUpload(file)
             ELSE /\ uploadError' = validation.error
                  /\ forwarded' = <<>>
                  /\ UNCHANGED chatVars
    ELSE /\ forwarded' = <<>>
         /\ UNCHANGED <<uploadError, chatVars>>

\* handleDrop
HandleDrop(files) ==
    /\ isDragging' = FALSE
    /\ dragCounter' = 0
    /\ ValidateAndForward(files)
    /\ UNCHANGED renderedDragCounter
    /\ UNCHANGED <<authVars, tabVars, agentVars, recVars>>

\* handleFileSelect, from the image input or the file input; both buttons are
\* disabled while the assistant is typing and while a recording runs
HandleFileSelect(files) ==
    /\ ~isTyping /\ ~isRecording
    /\ ValidateAndForward(files)
    /\ UNCHANGED <<isDragging, dragCounter, renderedDragCounter>>
    /\ UNCHANGED <<authVars, tabVars, agentVars, recVars>>

\* ---------------------------------------------------- lib/aiAgentWrapper

\* Attachments one payload may carry
MaxAttachments == 2

\* Strings are sequences of characters here, so that prefix and substring
\* tests are computed rather than assumed.
UpperCase == <<"A", "B", "C", "D", "E", "F", "G", "H", "I", "J", "K", "L", "M", "N", "O", "P", "Q", "R", "S", "T", "U", "V", "W", "X", "Y", "Z">>
LowerCase == <<"a", "b", "c", "d", "e", "f", "g", "h", "i", "j", "k", "l", "m", "n", "o", "p", "q", "r", "s", "t", "u", "v", "w", "x", "y", "z">>

\* String.prototype.toLowerCase
ToLowerCase(s) ==
    [i \in 1..Len(s) |->
        IF \E k \in 1..Len(UpperCase) : UpperCase[k] = s[i]
        THEN LowerCase[CHOOSE k \in 1..Len(UpperCase) : UpperCase[k] = s[i]]
        ELSE s[i]]

\* String.prototype.startsWith / a pattern anchored with ^
StartsWith(s, w) == Len(s) >= Len(w) /\ SubSeq(s, 1, Len(w)) = w

\* An unanchored literal pattern
Contains(s, w) == \E i \in 1..(Len(s) - Len(w) + 1) : SubSeq(s, i, i + Len(w) - 1) = w

\* \s
Whitespace == {" ", "\t", "\n"}

\* hi|hello|hey|greetings
GreetingWords ==
    {<<"h", "i">>,
     <<"h", "e", "l", "l", "o">>,
     <<"h", "e", "y">>,
     <<"g", "r", "e", "e", "t", "i", "n", "g", "s">>}

\* morning|afternoon|evening
DayParts ==
    {<<"m", "o", "r", "n", "i", "n", "g">>,
     <<"a", "f", "t", "e", "r", "n", "o", "o", "n">>,
     <<"e", "v", "e", "n", "i", "n", "g">>}

\* good\s*(morning|afternoon|evening), anchored at the start
StartsWithGoodDayPart(s) ==
    /\ StartsWith(s, <<"g", "o", "o", "d">>)
    /\ \E k \in 0..(Len(s) - 4) :
          /\ \A j \in 5..(4 + k) : s[j] \in Whitespace
          /\ \E d \in DayParts : StartsWith(SubSeq(s, 5 + k, Len(s)), d)

\* /^(hi|hello|hey|greetings|good\s*(morning|afternoon|evening))/i
MatchesGreeting(s) ==
    \/ \E w \in GreetingWords : StartsWith(ToLowerCase(s), w)
    \/ StartsWithGoodDayPart(ToLowerCase(s))

\* code|function|programming|javascript|python|react|api
CodeKeywords ==
    {<<"c", "o", "d", "e">>,
     <<"f", "u", "n", "c", "t", "i", "o", "n">>,
     <<"p", "r", "o", "g", "r", "a", "m", "m", "i", "n", "g">>,
     <<"j", "a", "v", "a", "s", "c", "r", "i", "p", "t">>,
     <<"p", "y", "t", "h", "o", "n">>,
     <<"r", "e", "a", "c", "t">>,
     <<"a", "p", "i">>}

\* /code|function|programming|javascript|python|react|api/i
MatchesCode(s) == \E w \in CodeKeywords : Contains(ToLowerCase(s), w)

\* type.startsWith('image/'), over the MIME types of the model
StartsWithImage(type) == type \in AllowedImages \cup {"image/svg+xml"}

\* mockResponses, each string named by its first sentence (the code sample by
\* its first comment line)
MockResponses(category) ==
    IF category = "greeting"
    THEN {"Hello! I'm your AI assistant.", "Hi there!", "Greetings!"}
    ELSE IF category = "image"
    THEN {"I can see you've shared an image.", "Thanks for sharing this image!"}
    ELSE IF category = "file"
    THEN {"I've received your file.", "File received!"}
    ELSE IF category = "code"
    THEN {"Here's a sample code response"}
    ELSE {"That's a great question!", "I understand what you're asking.",
          "Thanks for your message!"}

\* Mutant of GetResponseCategory: the code keywords are tested first
GetResponseCategoryCodeFirst(payload) ==
    LET message == ToLowerCase(payload.message)
    IN  IF MatchesCode(message) THEN "code"
        ELSE IF MatchesGreeting(message) THEN "greeting"
        ELSE IF Len(payload.attachments) > 0
             THEN IF StartsWithImage(payload.attachments[1].type) THEN "image" ELSE "file"
             ELSE "default"

\* getResponseCategory
GetResponseCategory(payload) ==
    LET message == ToLowerCase(payload.message)
    IN  IF MatchesGreeting(message) THEN "greeting"
        ELSE IF MatchesCode(message) THEN "code"
        ELSE IF Len(payload.attachments) > 0
             THEN IF StartsWithImage(payload.attachments[1].type) THEN "image" ELSE "file"
             ELSE "default"

\* Messages a payload may carry
AgentMessages ==
    {<<>>,
     <<"H", "i">>,
     <<"h", "e", "l", "l", "o", " ", "t", "h", "e", "r", "e">>,
     <<"H", "E", "Y">>,
     <<"h", "i", "s", "t", "o", "r", "y">>,
     <<"s", "a", "y", " ", "h", "i">>,
     <<"G", "o", "o", "d", " ", "m", "o", "r", "n", "i", "n", "g">>,
     <<"g", "o", "o", "d", "e", "v", "e", "n", "i", "n", "g">>,
     <<"g", "o", "o", "d", " ", "\t", "a", "f", "t", "e", "r", "n", "o", "o", "n">>,
     <<"g", "o", "o", "d", " ", "d", "a", "y">>,
     <<"f", "i", "x", " ", "m", "y", " ", "c", "o", "d", "e">>,
     <<"h", "i", " ", "c", "o", "d", "e">>,
     <<"c", "a", "p", "i", "t", "a", "l">>,
     <<"R", "e", "a", "c", "t">>,
     <<"p", "l", "a", "i", "n">>}

\* Attachment lists a payload may carry
AgentAttachments == UNION {[1..n -> Files] : n \in 0..MaxAttachments}

AgentPayloads == [message : AgentMessages, attachments : AgentAttachments]

NoResponse == [type |-> "none", content |-> "", error |-> NoError]

AgentInit ==
    /\ agentPayload \in AgentPayloads
    /\ agentResponse = NoResponse

\* sendToAIAgent after its mock delay: the category, a random pick from its
\* pool, and the resolved value
AgentRespond ==
    /\ agentResponse = NoResponse
    /\ \E content \in MockResponses(GetResponseCategory(agentPayload)) :
          agentResponse' = [type |-> "text", content |-> content, error |-> NoError]
    /\ UNCHANGED agentPayload
    /\ UNCHANGED <<authVars, tabVars, chatVars, uploadVars, recVars>>

\* The next call of sendToAIAgent, with another payload
AgentCall(payload) ==
    /\ agentResponse # NoResponse
    /\ agentPayload' = payload
    /\ agentResponse' = NoResponse
    /\ UNCHANGED <<authVars, tabVars, chatVars, uploadVars, recVars>>

\* -------------------------------------------------- hooks/useVoiceRecorder

\* MediaStreams getUserMedia may grant in one run
MaxRecorders == 2

\* Timeslice dataavailable events the recorders deliver in one run
MaxSlices == 1

\* Seconds the duration timer is followed for
MaxDuration == 1

\* null in a ref
NoRef == 0

ErrMicrophone == "Microphone access denied. Please allow microphone access to record voice messages."

\* e.data.size of a dataavailable event.  An event of the model stands for a
\* run of consecutive 100 ms events and carries the run's total size: nothing,
\* or six megabytes of audio.
ChunkSizes == {0, 6291456}

NoBlob == [rec |-> NoRef, chunks |-> <<>>]

RecInit ==
    /\ webmSupported \in BOOLEAN
    /\ isRecording = FALSE
    /\ recordingDuration = 0
    /\ recordingError = NoError
    /\ mediaRecorderRef = NoRef
    /\ chunksRef = <<>>
    /\ timerRef = NoRef
    /\ streamRef = NoRef
    /\ pendingStarts = 0
    /\ streams = <<>>
    /\ recorders = <<>>
    /\ timers = <<>>
    /\ cancelled = {}
    /\ uploadedFrom = {}
    /\ resolved = NoBlob

\* No recorder is in use and the browser supports the format
RecIdle ==
    /\ RecInit
    /\ webmSupported = TRUE

\* clearInterval(timerRef.current), when timerRef.current is set
ClearTimer(ts, ref) ==
    IF ref # NoRef THEN [ts EXCEPT ![ref] = FALSE] ELSE ts

\* MediaRecorder.stop(): an inactive recorder ignores it; a recording one
\* becomes inactive at once and queues its last dataavailable event and its
\* stop event
StopRecorder(rs, r) ==
    IF rs[r].state = "inactive"
    THEN rs
    ELSE [rs EXCEPT ![r].state = "inactive", ![r].tasks = <<"data", "stop">>]

\* stream.getTracks().forEach((track) => track.stop()), when the ref is set
StopTracks(ss, ref) ==
    IF ref # NoRef THEN [ss EXCEPT ![ref] = FALSE] ELSE ss

\* mediaRecorder.ondataavailable
PushChunk(chunks, chunk) ==
    IF chunk.size > 0 THEN Append(chunks, chunk) ELSE chunks

\* The sum of the sizes of a blob's parts
RECURSIVE BlobSize(_)
BlobSize(chunks) ==
    IF chunks = <<>> THEN 0 ELSE Head(chunks).size + BlobSize(Tail(chunks))

\* new File([audioBlob], 'voice-message-<now>.webm', {type: 'audio/webm'})
VoiceFile(chunks) ==
    [name |-> "voice-message.webm", type |-> "audio/webm", size |-> BlobSize(chunks)]

\* The timeslice events delivered so far
RECURSIVE SlicesOf(_)
SlicesOf(rs) == IF rs = <<>> THEN 0 ELSE Head(rs).slices + SlicesOf(Tail(rs))

\* startRecording up to its await; the microphone button is rendered only
\* while isRecording is false
StartRecording ==
    /\ ~isRecording
    /\ Len(streams) + pendingStarts < MaxRecorders
    /\ recordingError' = NoError
    /\ chunksRef' = <<>>
    /\ pendingStarts' = pendingStarts + 1
    /\ UNCHANGED <<webmSupported, isRecording, recordingDuration, mediaRecorderRef,
                   timerRef, streamRef, streams, recorders, timers,
                   cancelled, uploadedFrom, resolved>>
    /\ UNCHANGED <<authVars, tabVars, chatVars, uploadVars, agentVars>>

\* getUserMedia rejects: the catch block of startRecording
GetUserMediaDenied ==
    /\ pendingStarts > 0
    /\ pendingStarts' = pendingStarts - 1
    /\ recordingError' = ErrMicrophone
    /\ UNCHANGED <<webmSupported, isRecording, recordingDuration, mediaRecorderRef,
                   chunksRef, timerRef, streamRef, streams, recorders, timers, cancelled, uploadedFrom, resolved>>
    /\ UNCHANGED <<authVars, tabVars, chatVars, uploadVars, agentVars>>

\* getUserMedia resolves: the rest of startRecording.  Where the browser does
\* not support 'audio/webm' the MediaRecorder constructor throws and the catch
\* block runs with the stream already stored.
GetUserMediaGranted ==
    /\ pendingStarts > 0
    /\ pendingStarts' = pendingStarts - 1
    /\ streams' = Append(streams, TRUE)
    /\ streamRef' = Len(streams) + 1
    /\ IF webmSupported
       THEN /\ recorders' = Append(recorders,
                   [stream |-> Len(streams) + 1, state |-> "recording", onstop |-> FALSE,
                    tasks |-> <<>>, slices |-> 0, captured |-> <<>>, promises |-> 0])
            /\ mediaRecorderRef' = Len(recorders) + 1
            /\ isRecording' = TRUE
            /\ recordingDuration' = 0
            /\ timers' = Append(timers, TRUE)
            /\ timerRef' = Len(timers) + 1
            /\ UNCHANGED recordingError
       ELSE /\ recordingError' = ErrMicrophone
            /\ UNCHANGED <<recorders, mediaRecorderRef, isRecording, recordingDuration,
                           timers, timerRef>>
    /\ UNCHANGED <<webmSupported, chunksRef, cancelled, uploadedFrom,
                   resolved>>
    /\ UNCHANGED <<authVars, tabVars, chatVars, uploadVars, agentVars>>

\* The interval armed by startRecording fires
TimerTick(t) ==
    /\ timers[t]
    /\ recordingDuration < MaxDuration
    /\ recordingDuration' = recordingDuration + 1
    /\ UNCHANGED <<webmSupported, isRecording, recordingError, mediaRecorderRef,
                   chunksRef, timerRef, streamRef, pendingStarts, streams, recorders,
                   timers, cancelled, uploadedFrom, resolved>>
    /\ UNCHANGED <<authVars, tabVars, chatVars, uploadVars, agentVars>>

\* A dataavailable event of recorder r reaches ondataavailable: a timeslice
\* event while r records, or the last event queued by stop()
DataAvailable(r, size) ==
    /\ \/ /\ recorders[r].state = "recording"
          /\ SlicesOf(recorders) < MaxSlices
          /\ recorders' = [recorders EXCEPT
                 ![r].slices = @ + 1,
                 ![r].captured = PushChunk(@, [rec |-> r, n |-> Len(@) + 1, size |-> size])]
       \/ /\ recorders[r].tasks # <<>>
          /\ Head(recorders[r].tasks) = "data"
          /\ recorders' = [recorders EXCEPT
                 ![r].tasks = Tail(@),
                 ![r].captured = PushChunk(@, [rec |-> r, n |-> Len(@) + 1, size |-> size])]
    /\ chunksRef' = PushChunk(chunksRef,
           [rec |-> r, n |-> Len(recorders[r].captured) + 1, size |-> size])
    /\ UNCHANGED <<webmSupported, isRecording, recordingDuration, recordingError,
                   mediaRecorderRef, timerRef, streamRef, pendingStarts, streams, timers, cancelled, uploadedFrom, resolved>>
    /\ UNCHANGED <<authVars, tabVars, chatVars, uploadVars, agentVars>>

\* Promises of stopRecording a recorder may hold unsettled at one time
MaxStops == 2

\* The unsettled promises of a recorder after its stop event: the one handler
\* in onstop, if any, calls the resolve of the stopRecording call that set it
Settled(promises, onstop) == IF onstop THEN promises - 1 ELSE promises

\* The stop event of recorder r.  With the onstop handler of stopRecording
\* attached: the handler, then the rest of ChatInput.handleStopRecording, which
\* wraps the blob in a File and hands it to the store's handleFileUpload.
StopEvent(r) ==
    /\ recorders[r].tasks # <<>>
    /\ Head(recorders[r].tasks) = "stop"
    /\ recorders' = [recorders EXCEPT ![r].tasks = Tail(@),
                                      ![r].promises = Settled(@, recorders[r].onstop)]
    /\ IF recorders[r].onstop
       THEN /\ resolved' = [rec |-> r, chunks |-> chunksRef]
            /\ streams' = StopTracks(streams, streamRef)
            /\ streamRef' = NoRef
            /\ mediaRecorderRef' = NoRef
            /\ isRecording' = FALSE
            /\ recordingDuration' = 0
            /\ uploadedFrom' = uploadedFrom \cup {r}
            /\ StoreFileUpload(VoiceFile(chunksRef))
       ELSE /\ UNCHANGED <<resolved, streams, streamRef, mediaRecorderRef, isRecording,
                           recordingDuration, uploadedFrom>>
            /\ UNCHANGED chatVars
    /\ UNCHANGED <<webmSupported, recordingError, chunksRef, timerRef, pendingStarts,
                   timers, cancelled>>
    /\ UNCHANGED <<authVars, tabVars, uploadVars, agentVars>>

\* ChatInput.handleStopRecording up to its await, that is stopRecording; the
\* stop button is rendered only while isRecording is true
StopRecording ==
    /\ isRecording
    /\ IF mediaRecorderRef = NoRef \/ streamRef = NoRef
       THEN UNCHANGED <<timers, timerRef, recorders>>
       ELSE /\ recorders[mediaRecorderRef].promises < MaxStops
            /\ timers' = ClearTimer(timers, timerRef)
            /\ timerRef' = NoRef
            /\ recorders' = StopRecorder(
                                [recorders EXCEPT ![mediaRecorderRef].onstop = TRUE,
                                                  ![mediaRecorderRef].promises = @ + 1],
                                mediaRecorderRef)
    /\ UNCHANGED <<webmSupported, isRecording, recordingDuration, recordingError,
                   mediaRecorderRef, chunksRef, streamRef, pendingStarts, streams,
                   cancelled, uploadedFrom, resolved>>
    /\ UNCHANGED <<authVars, tabVars, chatVars, uploadVars, agentVars>>

\* cancelRecording; the cancel button is rendered only while isRecording is true
CancelRecording ==
    /\ isRecording
    /\ timers' = ClearTimer(timers, timerRef)
    /\ timerRef' = NoRef
    /\ recorders' = IF mediaRecorderRef # NoRef
                    THEN StopRecorder(recorders, mediaRecorderRef)
                    ELSE recorders
    /\ streams' = StopTracks(streams, streamRef)
    /\ streamRef' = NoRef
    /\ mediaRecorderRef' = NoRef
    /\ chunksRef' = <<>>
    /\ isRecording' = FALSE
    /\ recordingDuration' = 0
    /\ cancelled' = IF mediaRecorderRef # NoRef
                    THEN cancelled \cup {mediaRecorderRef}
                    ELSE cancelled
    /\ UNCHANGED <<webmSupported, recordingError, pendingStarts,
                   uploadedFrom, resolved>>
    /\ UNCHANGED <<authVars, tabVars, chatVars, uploadVars, agentVars>>

\* ------------------------------------------- lib/auth.ts in several tabs

\* Two tabs of one browser share localStorage.  Within a tab the stretch of
\* registerUser from getStoredUsers to saveUsers is one task; between tabs
\* localStorage has no lock, so the read and the write of one tab may have
\* another tab's read or write between them.
Tabs == {1, 2}

\* User records the tabs may store in one run
MaxTabUsers == 2

NoCall == [name |-> "", email |-> "", mobile |-> "", password |-> ""]

TabIdle == [pc |-> "idle", data |-> NoCall, snapshot |-> <<>>, stale |-> FALSE]

TabInit ==
    /\ tabs = [t \in Tabs |-> TabIdle]
    /\ acked = {}

\* Calls of registerUser that have not returned yet
TabsRunning == Cardinality({t \in Tabs : tabs[t].pc # "idle"})

\* Mutant of TabCollection: the collection is read again when it is saved
TabCollectionReread(snapshot, stored) == stored

\* The array registerUser tests, pushes to and saves: the one getStoredUsers
\* returned
TabCollection(snapshot, stored) == snapshot

\* A tab calls registerUser: the call waits on its 500 ms delay
TabRegister(t, data) ==
    /\ tabs[t].pc = "idle"
    /\ (nextUserId - 1) + TabsRunning + 1 <= MaxTabUsers
    /\ tabs' = [tabs EXCEPT ![t] = [pc |-> "waiting", data |-> data, snapshot |-> <<>>,
                                    stale |-> FALSE]]
    /\ UNCHANGED <<users, nextUserId, acked>>
    /\ UNCHANGED <<currentUser, storeUser, isInitialized, route, screen, dirty, isLoading,
                   pendingAuth, lastResult>>
    /\ UNCHANGED <<chatVars, uploadVars, agentVars, recVars>>

\* The delay is over: const users = getStoredUsers()
TabRead(t) ==
    /\ tabs[t].pc = "waiting"
    /\ tabs' = [tabs EXCEPT ![t].pc = "read", ![t].snapshot = users]
    /\ UNCHANGED <<users, nextUserId, acked>>
    /\ UNCHANGED <<currentUser, storeUser, isInitialized, route, screen, dirty, isLoading,
                   pendingAuth, lastResult>>
    /\ UNCHANGED <<chatVars, uploadVars, agentVars, recVars>>

\* The rest of registerUser: the duplicate test, users.push, saveUsers and the
\* return.  A tab that has read and not yet returned now holds a stale array.
TabWrite(t) ==
    /\ tabs[t].pc = "read"
    /\ LET collection == TabCollection(tabs[t].snapshot, users)
           result == RegisterResult(collection, nextUserId, tabs[t].data)
       IN  /\ users' = IF result.success
                       THEN RegisterUsers(collection, nextUserId, tabs[t].data)
                       ELSE users
           /\ nextUserId' = IF result.success THEN nextUserId + 1 ELSE nextUserId
           /\ acked' = IF result.success THEN acked \cup {nextUserId} ELSE acked
           /\ tabs' = [u \in Tabs |->
                         IF u = t THEN TabIdle
                         ELSE IF result.success /\ tabs[u].pc = "read"
                              THEN [tabs[u] EXCEPT !.stale = TRUE]
                              ELSE tabs[u]]
    /\ UNCHANGED <<currentUser, storeUser, isInitialized, route, screen, dirty, isLoading,
                   pendingAuth, lastResult>>
    /\ UNCHANGED <<chatVars, uploadVars, agentVars, recVars>>

\* ---------------------------------------------------------- specifications

AuthInit ==
    /\ users = <<>>
    /\ currentUser = NoUser
    /\ nextUserId = 1
    /\ storeUser = NoUser
    /\ isInitialized = FALSE
    /\ route \in Routes
    /\ screen = "none"
    /\ dirty = TRUE
    /\ isLoading = FALSE
    /\ pendingAuth = <<>>
    /\ lastResult = NoResult

ChatInit ==
    /\ messages = <<>>
    /\ conversationId = NoConversation
    /\ isTyping = FALSE
    /\ inputText = ""
    /\ pendingAttachments = <<>>
    /\ error = NoError
    /\ nextMsgId = 1
    /\ nextConvId = 1
    /\ nextAttId = 1
    /\ blobs = {}
    /\ pendingSends = <<>>

\* The user the chat page is shown to in ChatSpec
ChatUser == [id |-> 1, name |-> "Ann", email |-> "a@x.io", mobile |-> "0123456789",
             password |-> "secret1"]

\* The auth state with ChatUser logged in and the chat page rendered
AuthAtChat ==
    /\ users = <<ChatUser>>
    /\ currentUser = WithoutPassword(ChatUser)
    /\ nextUserId = 2
    /\ storeUser = WithoutPassword(ChatUser)
    /\ isInitialized = TRUE
    /\ route = "/chat"
    /\ screen = "chat"
    /\ dirty = FALSE
    /\ isLoading = FALSE
    /\ pendingAuth = <<>>
    /\ lastResult = [op |-> "login", success |-> TRUE, user |-> WithoutPassword(ChatUser),
                     error |-> ""]

\* No agent call is under study
AgentIdle ==
    /\ agentPayload = [message |-> <<>>, attachments |-> <<>>]
    /\ agentResponse = NoResponse

InputInit == UploadInit /\ AgentIdle /\ RecIdle /\ TabInit

AuthNext ==
    \/ Render
    \/ \E data \in RegisterFormData : RegisterSubmit(data)
    \/ \E data \in LoginFormData : LoginSubmit(data)
    \/ RegisterResponse
    \/ LoginResponse
    \/ Logout
    \/ Navigate
    \/ \E r \in Routes : Reload(r)

ChatNext ==
    \/ HandleSend
    \/ \E text \in Suggestions : Suggestion(text)
    \/ \E outcome \in Outcomes : SendResponse(outcome)
    \/ \E text \in InputTexts : SetInputText(text)
    \/ \E file \in Files : HandleFileUpload(file)
    \/ \E id \in 1..MaxUploads : RemoveAttachment(id)
    \/ ClearMessages
    \/ NewConversation
    \/ ClearError
    \/ ChatReload

\* The auth layer, the user store and the pages, from an empty localStorage
Init == AuthInit /\ ChatInit /\ InputInit

Next == AuthNext

Spec == Init /\ [][Next]_vars

\* The chat store, with a logged-in user on the chat page
ChatSpecInit == AuthAtChat /\ ChatInit /\ InputInit

ChatSpec == ChatSpecInit /\ [][ChatNext]_vars

\* The life of sendMessage calls: sends from the input box and the suggestion
\* buttons, the replies, and the actions that clear or reload under them
ChatLiveNext ==
    \/ HandleSend
    \/ \E text \in Suggestions : Suggestion(text)
    \/ \E outcome \in Outcomes : SendResponse(outcome)
    \/ \E text \in InputTexts : SetInputText(text)
    \/ ClearMessages
    \/ NewConversation
    \/ ChatReload

\* The chat store when the delay timer of sendToAIAgent fires: a waiting call
\* is not left waiting for ever
ChatLiveSpec ==
    /\ ChatSpecInit
    /\ [][ChatLiveNext]_vars
    /\ WF_vars(\E outcome \in Outcomes : SendResponse(outcome))

UploadNext ==
    \/ \E hasItems \in BOOLEAN : HandleDragEnter(hasItems)
    \/ HandleDragLeave
    \/ UploadRender
    \/ \E files \in FileLists : HandleDrop(files)
    \/ \E files \in FileLists : HandleFileSelect(files)
    \/ \E id \in 1..MaxUploads : RemoveAttachment(id)

\* The chat input's drop zone and file pickers over the chat store
UploadSpec == ChatSpecInit /\ [][UploadNext]_vars

AgentNext ==
    \/ AgentRespond
    \/ \E payload \in AgentPayloads : AgentCall(payload)

\* sendToAIAgent as a function of its payload
AgentSpecInit == AuthAtChat /\ ChatInit /\ UploadInit /\ AgentInit /\ RecIdle /\ TabInit

AgentSpec == AgentSpecInit /\ [][AgentNext]_vars

RecNext ==
    \/ StartRecording
    \/ GetUserMediaDenied
    \/ GetUserMediaGranted
    \/ \E t \in 1..Len(timers) : TimerTick(t)
    \/ \E r \in 1..Len(recorders), size \in ChunkSizes : DataAvailable(r, size)
    \/ \E r \in 1..Len(recorders) : StopEvent(r)
    \/ StopRecording
    \/ CancelRecording

\* The voice recorder of the chat input over the chat store
RecSpecInit == AuthAtChat /\ ChatInit /\ UploadInit /\ AgentIdle /\ RecInit /\ TabInit

RecSpec == RecSpecInit /\ [][RecNext]_vars

\* A queued event of some recorder is delivered
RecorderTask ==
    \E r \in 1..Len(recorders) :
        /\ recorders[r].tasks # <<>>
        /\ StopEvent(r) \/ \E size \in ChunkSizes : DataAvailable(r, size)

\* The voice recorder when the events a recorder has queued are delivered
RecLiveSpec == RecSpec /\ WF_vars(RecorderTask)

TabNext ==
    \/ \E t \in Tabs, data \in RegisterFormData : TabRegister(t, data)
    \/ \E t \in Tabs : TabRead(t)
    \/ \E t \in Tabs : TabWrite(t)

TabSpecInit ==
    /\ AuthInit /\ route = "/auth/register"
    /\ ChatInit /\ UploadInit /\ AgentIdle /\ RecIdle /\ TabInit

\* registerUser called from two tabs over one localStorage
TabSpec == TabSpecInit /\ [][TabNext]_vars

\* ------------------------------------------------------------------ claims

IsPrefix(s, t) == Len(s) <= Len(t) /\ SubSeq(t, 1, Len(s)) = s

Last(s) == s[Len(s)]

\* C1: a registerUser call whose email some stored user already has returns
\* success=false with the duplicate-email error and no user, and leaves the
\* users collection and the current-session record as they were.
C1_DuplicateEmailRejected ==
    [][(RegisterResponse
        /\ \E i \in 1..Len(users) : users[i].email = Head(pendingAuth).data.email)
       => /\ lastResult' = [op |-> "register", success |-> FALSE, user |-> NoUser,
                            error |-> "Email already registered"]
          /\ users' = users
          /\ currentUser' = currentUser]_vars

\* A registration has just been rejected as a duplicate while users are stored
C1_Witness ==
    /\ lastResult.op = "register"
    /\ ~lastResult.success
    /\ lastResult.error = "Email already registered"
    /\ users # <<>>

\* C2: a registerUser call whose email no stored user has appends exactly one
\* record with the given name, email, mobile and password at the end of the
\* users collection, keeps the earlier records in place, and returns success
\* with that record's fields minus the password.
C2_RegisterAppends ==
    [][(RegisterResponse
        /\ \A i \in 1..Len(users) : users[i].email # Head(pendingAuth).data.email)
       => LET data == Head(pendingAuth).data
              new == users'[Len(users')]
          IN  /\ Len(users') = Len(users) + 1
              /\ SubSeq(users', 1, Len(users)) = users
              /\ new.name = data.name /\ new.email = data.email
              /\ new.mobile = data.mobile /\ new.password = data.password
              /\ lastResult'.success
              /\ lastResult'.error = ""
              /\ DOMAIN lastResult'.user = {"id", "name", "email", "mobile"}
              /\ \A f \in DOMAIN lastResult'.user : lastResult'.user[f] = new[f]]_vars

\* A second user has just been registered behind the first
C2_Witness ==
    /\ lastResult.op = "register"
    /\ lastResult.success
    /\ Len(users) = 2
    /\ users[2].id = lastResult.user.id
    /\ users[1].id # users[2].id

\* C3: a loginUser call that no stored record matches in both email and
\* password fails with the invalid-credentials error and changes neither the
\* current-session record nor the users collection.
C3_LoginRejected ==
    [][(LoginResponse
        /\ \A i \in 1..Len(users) :
              ~(users[i].email = Head(pendingAuth).data.email
                /\ users[i].password = Head(pendingAuth).data.password))
       => /\ lastResult' = [op |-> "login", success |-> FALSE, user |-> NoUser,
                            error |-> "Invalid email or password"]
          /\ currentUser' = currentUser
          /\ users' = users]_vars

\* A login has just failed while users are stored and a session exists
C3_Witness ==
    /\ lastResult.op = "login"
    /\ ~lastResult.success
    /\ users # <<>>
    /\ currentUser # NoUser

\* C4: a loginUser call that some stored record matches overwrites the
\* current-session record, whatever it held, with the first matching record
\* minus its password and returns that user; getCurrentUser then returns it.
C4_LoginWritesSession ==
    [][(LoginResponse
        /\ \E i \in 1..Len(users) :
              /\ users[i].email = Head(pendingAuth).data.email
              /\ users[i].password = Head(pendingAuth).data.password)
       => LET data == Head(pendingAuth).data
              match(i) == users[i].email = data.email /\ users[i].password = data.password
          IN  \E i \in 1..Len(users) :
                 /\ match(i)
                 /\ \A j \in 1..(i - 1) : ~match(j)
                 /\ currentUser' = [id |-> users[i].id, name |-> users[i].name,
                                    email |-> users[i].email, mobile |-> users[i].mobile]
                 /\ lastResult'.success
                 /\ lastResult'.user = currentUser'
                 /\ GetCurrentUser' = lastResult'.user
                 /\ users' = users]_vars

\* The second stored user has just logged in and holds the session
C4_Witness ==
    /\ lastResult.op = "login"
    /\ lastResult.success
    /\ Len(users) = 2
    /\ currentUser = lastResult.user
    /\ currentUser.id = users[2].id

\* C5: after the user store's logout the current-session record is absent,
\* getCurrentUser returns null, isLoggedIn is false and the store's user is
\* null, and the users collection is unchanged.
C5_LogoutClearsSession ==
    [][Logout => /\ currentUser' = NoUser
                 /\ GetCurrentUser' = NoUser
                 /\ ~IsLoggedIn'
                 /\ storeUser' = NoUser
                 /\ users' = users]_vars

\* The chat page's logout has just run: the chat screen is still painted, the
\* session is gone and the router points at the login page
C5_Witness ==
    /\ screen = "chat" /\ dirty /\ route = "/auth/login"
    /\ currentUser = NoUser /\ storeUser = NoUser
    /\ users # <<>>

\* C6: the user who became the store's user through a successful registration
\* or login, and has not logged out, is still the store's user after the user
\* store's initialize runs again (the first render after a reload).
C6_SessionSurvivesInitialize ==
    [][(Render /\ ~isInitialized /\ storeUser # NoUser) => storeUser' = storeUser]_vars

\* C7: once the page's effects have run, the chat interface is on screen only
\* with an initialized store holding a user, and an initialized store with no
\* user is never left on the chat route: the page has redirected to login.
C7_ChatRouteProtected ==
    ~dirty => /\ screen = "chat" => (isInitialized /\ storeUser # NoUser)
              /\ (isInitialized /\ storeUser = NoUser) => route # "/chat"

\* The chat page has rendered its loader for an initialized store with no user
\* and its redirect effect is due
C7_Witness ==
    /\ route = "/chat" /\ screen = "loader" /\ dirty
    /\ isInitialized /\ storeUser = NoUser

\* C8: a sendMessage that runs alone appends exactly one user message at once
\* and, when its response arrives, exactly one assistant message right after
\* it; isTyping is true in every state in between and false afterwards.
C8_SingleSend ==
    /\ [](\A i \in 1..Len(pendingSends) :
             pendingSends[i].alone =>
                /\ isTyping
                /\ messages # <<>>
                /\ Last(messages).id = pendingSends[i].userMsgId
                /\ Last(messages).role = "user")
    /\ [][((HandleSend \/ \E text \in Suggestions : Suggestion(text)) /\ pendingSends = <<>>)
          => /\ Len(messages') = Len(messages) + 1
             /\ SubSeq(messages', 1, Len(messages)) = messages
             /\ Last(messages').role = "user"
             /\ isTyping']_vars
    /\ [][\A o \in {"ok", "agentError"} :
             (SendResponse(o) /\ Head(pendingSends).alone)
             => /\ Len(messages') = Len(messages) + 1
                /\ SubSeq(messages', 1, Len(messages)) = messages
                /\ Last(messages).id = Head(pendingSends).userMsgId
                /\ Last(messages').role = "assistant"
                /\ ~isTyping']_vars

\* The only send so far has been answered: a user message, then the reply
C8_Witness ==
    /\ pendingSends = <<>> /\ nextMsgId = 3
    /\ Len(messages) = 2
    /\ messages[1].role = "user" /\ messages[2].role = "assistant"
    /\ messages[2].content # ""
    /\ ~isTyping

\* C9: when the response step of sendMessage fails, the typing flag is
\* cleared, error is a non-null string, every message already in the list
\* (the user message included) stays where it was, and no request is re-issued.
C9_FailureHandled ==
    [][\A o \in {"agentError", "throw"} :
          SendResponse(o)
          => /\ ~isTyping'
             /\ error' # ""
             /\ IsPrefix(messages, messages')
             /\ \A i \in 1..Len(messages) :
                   messages[i].id = Head(pendingSends).userMsgId => messages'[i] = messages[i]
             /\ pendingSends' = Interleaved(Tail(pendingSends))
             /\ Len(pendingSends') = Len(pendingSends) - 1]_vars

\* A send has just failed: its user message is still last, typing is off and
\* the error is set
C9_Witness ==
    /\ error = "Failed to send message. Please try again."
    /\ ~isTyping
    /\ pendingSends = <<>>
    /\ messages # <<>>
    /\ Last(messages).role = "user"

\* C10: every chat-store action other than clearMessages and newConversation
\* leaves the previous message list as a prefix of the new one.
C10_AppendOnly ==
    [][ClearMessages \/ NewConversation \/ IsPrefix(messages, messages')]_vars

\* The list has grown through two sends and a reply
C10_Witness ==
    /\ Len(messages) = 3
    /\ messages[2].role = "assistant"
    /\ pendingSends # <<>>

\* C11: right after newConversation the message list is empty, conversationId
\* is a newly generated non-null id that differs from the previous one, and
\* inputText, pendingAttachments and error are reset.
C11_NewConversationResets ==
    [][NewConversation => /\ messages' = <<>>
                          /\ conversationId' # 0
                          /\ conversationId' # conversationId
                          /\ inputText' = ""
                          /\ pendingAttachments' = <<>>
                          /\ error' = ""]_vars

\* A second conversation id has just replaced a conversation that had messages
C11_Witness ==
    /\ messages = <<>>
    /\ conversationId = 2
    /\ nextMsgId > 1

\* C20: in one tab, no step of registerUser, loginUser or logoutUser removes
\* or changes a stored user record: every record stays at its place with every
\* field as written.
C20_UsersNeverMutated ==
    [][/\ Len(users') >= Len(users)
       /\ \A i \in 1..Len(users) : users'[i] = users[i]]_vars

\* Two users are stored, one has logged in and logged out again
C20_Witness ==
    /\ Len(users) = 2
    /\ lastResult.op = "login" /\ lastResult.success
    /\ currentUser = NoUser

\* C12 as stated: a drop or a file selection whose file is above 10 MB sets
\* the size-limit error, forwards nothing and leaves pendingAttachments alone.
C12_OversizedGetsSizeError ==
    [][\A files \in FileLists :
         ((HandleDrop(files) \/ HandleFileSelect(files))
          /\ Len(files) > 0 /\ files[1].size > MAX_FILE_SIZE)
         => /\ uploadError' = "File size exceeds 10MB limit"
            /\ forwarded' = <<>>
            /\ pendingAttachments' = pendingAttachments]_vars

\* C12 amended: a drop or a file selection whose file is above 10 MB is
\* rejected, forwards nothing and leaves pendingAttachments alone; the error
\* is the size-limit error when the file's type is allow-listed and the type
\* error otherwise.
C12_OversizedRejected ==
    [][\A files \in FileLists :
         ((HandleDrop(files) \/ HandleFileSelect(files))
          /\ Len(files) > 0 /\ files[1].size > MAX_FILE_SIZE)
         => /\ uploadError' =
                  IF files[1].type \in AllowedImages \cup AllowedDocuments \cup AllowedAudio
                  THEN "File size exceeds 10MB limit"
                  ELSE "File type not supported"
            /\ forwarded' = <<>>
            /\ pendingAttachments' = pendingAttachments]_vars

\* An oversized file of an allowed type has been rejected next to an attachment
C12_Witness ==
    /\ uploadError = "File size exceeds 10MB limit"
    /\ forwarded = <<>>
    /\ pendingAttachments # <<>>

\* C13: a drop or a file selection whose file has a type outside the
\* allow-list sets the type error, does not call onFileSelect and leaves
\* pendingAttachments alone.
C13_UnsupportedTypeRejected ==
    [][\A files \in FileLists :
         ((HandleDrop(files) \/ HandleFileSelect(files))
          /\ Len(files) > 0
          /\ files[1].type \notin AllowedImages \cup AllowedDocuments \cup AllowedAudio)
         => /\ uploadError' = "File type not supported"
            /\ forwarded' = <<>>
            /\ pendingAttachments' = pendingAttachments]_vars

\* A file of an unsupported type has been rejected next to an attachment
C13_Witness ==
    /\ uploadError = "File type not supported"
    /\ forwarded = <<>>
    /\ pendingAttachments # <<>>

\* C15: whenever the drag counter is back at zero, isDragging is false.
C15_DraggingFollowsCounter ==
    dragCounter = 0 => ~isDragging

\* C16: a drop sets isDragging to false and the drag counter to 0; it
\* validates the first file only and calls onFileSelect at most once, with
\* that file and only when it is valid; a drop without files calls nothing
\* and sets no error.
C16_DropForwardsFirstFile ==
    [][\A files \in FileLists :
         HandleDrop(files)
         => /\ ~isDragging'
            /\ dragCounter' = 0
            /\ IF Len(files) = 0
               THEN /\ forwarded' = <<>>
                    /\ uploadError' = uploadError
                    /\ pendingAttachments' = pendingAttachments
               ELSE IF /\ files[1].type \in AllowedImages \cup AllowedDocuments \cup AllowedAudio
                       /\ files[1].size <= MAX_FILE_SIZE
                    THEN /\ forwarded' = <<files[1]>>
                         /\ Len(pendingAttachments') = Len(pendingAttachments) + 1
                    ELSE /\ forwarded' = <<>>
                         /\ pendingAttachments' = pendingAttachments]_vars

\* A drop made while the counter stood at its rendered depth has forwarded a file
C16_Witness ==
    /\ forwarded # <<>>
    /\ dragCounter = 0 /\ renderedDragCounter = MaxDragDepth
    /\ ~isDragging

\* C19: sendToAIAgent resolves with type 'text', no error, and a content
\* string from the pool of the category chosen in this priority: greeting
\* when the lower-cased message starts with a greeting word, else code when
\* it contains a code keyword, else image when the first attachment's type
\* starts with 'image/', else file when there is an attachment, else default.
C19_CategoryPriority ==
    agentResponse # NoResponse =>
        /\ agentResponse.type = "text"
        /\ agentResponse.error = ""
        /\ agentResponse.content \in
             MockResponses(
               IF MatchesGreeting(agentPayload.message) THEN "greeting"
               ELSE IF MatchesCode(agentPayload.message) THEN "code"
               ELSE IF /\ agentPayload.attachments # <<>>
                       /\ StartsWithImage(agentPayload.attachments[1].type) THEN "image"
               ELSE IF agentPayload.attachments # <<>> THEN "file"
               ELSE "default")

\* A greeting that also names a code keyword and carries an image was answered
C19_Witness ==
    /\ agentResponse # NoResponse
    /\ MatchesGreeting(agentPayload.message)
    /\ MatchesCode(agentPayload.message)
    /\ agentPayload.attachments # <<>>
    /\ StartsWithImage(agentPayload.attachments[1].type)

\* C14: every attachment in pendingAttachments or in a message has an
\* allow-listed MIME type and a size of at most 10 MB, whichever input path
\* created it.
C14_AttachmentsValidated ==
    /\ \A i \in 1..Len(pendingAttachments) :
         /\ pendingAttachments[i].type \in AllowedImages \cup AllowedDocuments \cup AllowedAudio
         /\ pendingAttachments[i].size <= MAX_FILE_SIZE
    /\ \A i \in 1..Len(messages) : \A j \in 1..Len(messages[i].attachments) :
         /\ messages[i].attachments[j].type \in AllowedImages \cup AllowedDocuments \cup AllowedAudio
         /\ messages[i].attachments[j].size <= MAX_FILE_SIZE

\* C17: when the stop event of a recorder resolves stopRecording, the blob is
\* made of exactly the non-empty chunks that recorder delivered, in order, the
\* tracks of its stream are stopped, isRecording is false and
\* recordingDuration is 0.
C17_StopResolvesOwnChunks ==
    [][\A r \in 1..Len(recorders) :
         (StopEvent(r) /\ recorders[r].onstop)
         => /\ resolved'.chunks = recorders[r].captured
            /\ ~streams'[recorders[r].stream]
            /\ ~isRecording'
            /\ recordingDuration' = 0]_vars

\* C18: once cancelRecording has been called on a recorder, the tracks of its
\* stream are stopped, the chunk list holds no chunk of it and no attachment
\* is made from it.
C18_CancelDiscards ==
    \A r \in cancelled :
        /\ ~streams[recorders[r].stream]
        /\ \A i \in 1..Len(chunksRef) : chunksRef[i].rec # r
        /\ r \notin uploadedFrom

\* C30: in one tab the users collection never holds two records with the same
\* email, however registerUser calls overlap.
C30_EmailsUnique ==
    \A i, j \in 1..Len(users) : users[i].email = users[j].email => i = j

\* A registerUser call is still waiting on its delay for an email that a call
\* overlapping it has just stored
C30_Witness ==
    /\ Len(pendingAuth) = 1
    /\ pendingAuth[1].op = "register"
    /\ Len(users) = 1
    /\ users[1].email = pendingAuth[1].data.email
    /\ lastResult.op = "register" /\ lastResult.success

\* C21: when a tab's successful registration was computed from a collection
\* another tab wrote to after it was read, the saved collection holds two
\* records with one email or lacks a record whose registration was reported
\* successful.
C21_TabsRace ==
    [][\A t \in Tabs :
         (/\ TabWrite(t)
          /\ tabs[t].stale
          /\ \A i \in 1..Len(tabs[t].snapshot) :
                tabs[t].snapshot[i].email # tabs[t].data.email)
         => \/ \E i, j \in 1..Len(users') : i # j /\ users'[i].email = users'[j].email
            \/ \E id \in acked' : \A i \in 1..Len(users') : users'[i].id # id]_vars

\* A registration reported successful is no longer in the collection
C21_Witness ==
    \E id \in acked : \A i \in 1..Len(users) : users[i].id # id

\* C22: no message carries an attachment whose object URL belongs to a
\* document of an earlier browser session (attachments are never persisted).
C22_NoStaleAttachment ==
    \A i \in 1..Len(messages) :
        \A k \in 1..Len(messages[i].attachments) :
            messages[i].attachments[k].url \in blobs

\* C23: isTyping is true exactly when at least one sendMessage call is still
\* awaiting its response.
C23_TypingIffPending == isTyping <=> pendingSends # <<>>

\* The user message of the oldest waiting send is no longer in the list:
\* clearMessages or newConversation ran after the send was started
HeadSendCleared ==
    /\ pendingSends # <<>>
    /\ \A i \in 1..Len(messages) : messages[i].id # Head(pendingSends).userMsgId

\* C24: the response to a send started before clearMessages or newConversation
\* appends no assistant message to the new list and does not set
\* conversationId back to the earlier conversation's id.
C24_NoLeakAfterClear ==
    [][\A outcome \in Outcomes :
         (HeadSendCleared /\ SendResponse(outcome))
         => /\ messages' = messages
            /\ (/\ Head(pendingSends).conversationId # NoConversation
                /\ Head(pendingSends).conversationId # conversationId)
               => conversationId' # Head(pendingSends).conversationId]_vars

\* C26: conversationId changes only to null (clearMessages) or to a fresh id
\* (newConversation, or the first response received while it is null), and a
\* response received while it is non-null leaves it unchanged.
C26_ConversationIdChanges ==
    [][/\ conversationId' # conversationId
          => \/ conversationId' = NoConversation
             \/ conversationId' = nextConvId /\ nextConvId' = nextConvId + 1
       /\ \A outcome \in Outcomes :
             (conversationId # NoConversation /\ SendResponse(outcome))
             => conversationId' = conversationId]_vars

\* The sendMessage call that created user message m is awaiting its response
SendPending(m) == \E i \in 1..Len(pendingSends) : pendingSends[i].userMsgId = m

\* C25: when the delay timer fires, every sendMessage call stops waiting, and
\* unless the page was reloaded it does so by appending its assistant message
\* or setting error; when no call is pending isTyping is false, and it turns
\* true only by a new send.
C25_SendsComplete ==
    /\ \A m \in 1..MaxMsgIds : SendPending(m) ~> ~SendPending(m)
    /\ [][\A m \in 1..MaxMsgIds :
            (SendPending(m) /\ ~SendPending(m)')
            => \/ ChatReload
               \/ /\ Len(messages') = Len(messages) + 1
                  /\ messages'[Len(messages')].role = "assistant"
               \/ error' = ErrSendFailed]_vars
    /\ [](pendingSends = <<>> => ~isTyping)
    /\ [][(~isTyping /\ isTyping') => Len(pendingSends') = Len(pendingSends) + 1]_vars

\* A call has completed through the catch block: its user message is the last
\* one, the error is set and nothing is pending
C25_Witness ==
    /\ pendingSends = <<>>
    /\ ~isTyping
    /\ messages # <<>>
    /\ messages[Len(messages)].role = "user"
    /\ error = ErrSendFailed

\* C27: when isRecording is false and no startRecording call is in progress,
\* no capture stream track is live and no duration timer is running.
C27_IdleHoldsNothing ==
    (~isRecording /\ pendingStarts = 0)
    => /\ \A s \in 1..Len(streams) : ~streams[s]
       /\ \A t \in 1..Len(timers) : ~timers[t]

\* C29: a startRecording call that fails (access denied, or the recorder cannot
\* be created after access was granted) sets recordingError, leaves isRecording
\* as it was, starts no duration timer and leaves no capture stream live.
C29_FailedStartLeavesNothing ==
    [][(GetUserMediaDenied \/ (GetUserMediaGranted /\ ~webmSupported))
       => /\ recordingError' = ErrMicrophone
          /\ isRecording' = isRecording
          /\ timers' = timers
          /\ \A s \in (Len(streams) + 1)..Len(streams') : ~streams'[s]]_vars

\* Recorder r holds a promise of stopRecording that is not settled
Unsettled(r) == r <= Len(recorders) /\ recorders[r].promises > 0

\* C28: every promise returned by stopRecording is eventually settled, also
\* when stopRecording is called a second time before the stop event or after
\* cancelRecording.
C28_StopSettles ==
    \A r \in 1..MaxRecorders : Unsettled(r) ~> ~Unsettled(r)

====
